---- MODULE Spec2Model ----
(***************************************************************************)
(* A model of cpu/misc.py: collect_env, set_random_seed, symlink and       *)
(* create_small_table, with the process-wide state they read and write     *)
(* (the three random number generators, os.environ, the cudnn backend      *)
(* flags, the logger, the filesystem).                                     *)
(*                                                                         *)
(* Python integers are unbounded; they are kept here as two limbs,         *)
(* value = hi * 2^16 + lo with 0 <= lo < 2^16, so that 2^32 - 1 and its    *)
(* neighbours are exact.  Python strings are sequences of segments: a      *)
(* literal is one segment, a computed digit or separator one segment each. *)
(***************************************************************************)
EXTENDS Integers, Sequences, FiniteSets, TLC

VARIABLES
    rngPy,              \* state of the general-purpose generator (random)
    rngNp,              \* state of the numeric-library generator (numpy.random)
    rngTorch,           \* state of the tensor-library generator (torch)
    environ,            \* os.environ["PYTHONHASHSEED"]
    cudnnBenchmark,     \* torch.backends.cudnn.benchmark
    cudnnDeterministic, \* torch.backends.cudnn.deterministic
    log,                \* what logger.warning received during the last call
    snap,               \* the first valid seed set, and the generator states it left
    fs,                 \* the filesystem: path -> directory entry
    pc,                 \* position of the symlink call in progress
    frame,              \* arguments and locals of the symlink call in progress
    host,               \* what the machine answers to collect_env's queries
    small_dict,         \* the dictionary the caller holds for create_small_table
    call,               \* the last call made: its name, arguments, prior state
    ret                 \* what the last call returned or raised

vars == <<rngPy, rngNp, rngTorch, environ, cudnnBenchmark, cudnnDeterministic,
          log, snap, fs, pc, frame, host, small_dict, call, ret>>

seedVars == <<rngPy, rngNp, rngTorch, environ, cudnnBenchmark,
              cudnnDeterministic, log, snap>>
fsVars == <<fs, pc, frame>>
argVars == <<host, small_dict>>

(***************************************************************************)
(* Bounds of the model.                                                    *)
(***************************************************************************)
SeedSpread == 1     \* seeds tried: within SeedSpread of 0 and of 2^32 - 1
MaxDraws == 1       \* draws taken from the generators between two seedings
NumPaths == 2       \* paths of the filesystem
MaxDevices == 11    \* accelerator devices enumerated
MaxEntries == 3     \* entries of a small dictionary

(***************************************************************************)
(* Python integers and their decimal form.                                 *)
(***************************************************************************)
Base == 256 * 256

PyNone == [t |-> "NoneType"]

PyInt(hi, lo) == [t |-> "int", hi |-> hi, lo |-> lo]

\* a + k for a small machine integer k
Add(a, k) ==
    LET s == a.lo + k
    IN  PyInt(a.hi + (s \div Base), s % Base)

\* a <= b
Le(a, b) == IF a.hi = b.hi THEN a.lo <= b.lo ELSE a.hi < b.hi

\* -a
Neg(a) == IF a.lo = 0 THEN PyInt(-a.hi, 0) ELSE PyInt(-a.hi - 1, Base - a.lo)

DigitChar(d) == <<"0", "1", "2", "3", "4", "5", "6", "7", "8", "9">>[d + 1]

\* quotient and remainder of a nonnegative a by ten
DivMod10(a) ==
    LET s == (a.hi % 10) * Base + a.lo
    IN  [q |-> PyInt(a.hi \div 10, s \div 10), d |-> s % 10]

RECURSIVE DigitsOf(_)
DigitsOf(a) ==
    LET dm == DivMod10(a)
    IN  IF dm.q = PyInt(0, 0)
        THEN <<DigitChar(dm.d)>>
        ELSE Append(DigitsOf(dm.q), DigitChar(dm.d))

\* str(v) of None or an integer
Str(v) ==
    IF v = PyNone THEN <<"None">>
    ELSE IF v.hi < 0 THEN <<"-">> \o DigitsOf(Neg(v))
    ELSE DigitsOf(v)

\* str(k) of a small nonnegative machine integer
StrNat(k) == DigitsOf(PyInt(0, k))

(***************************************************************************)
(* set_random_seed                                                         *)
(***************************************************************************)
max_seed_value == PyInt(Base - 1, Base - 1)      \* np.iinfo(np.uint32).max

min_seed_value == PyInt(0, 0)                    \* np.iinfo(np.uint32).min

\* the integers tried as seeds and as outcomes of random.randint
IntSamples ==
    {Add(min_seed_value, k) : k \in (-SeedSpread)..SeedSpread}
        \cup {Add(max_seed_value, k) : k \in (-SeedSpread)..SeedSpread}

SeedInputs == IntSamples \cup {PyNone}

InUInt32(v) == v # PyNone /\ Le(min_seed_value, v) /\ Le(v, max_seed_value)

ValidSeeds == {v \in IntSamples : InUInt32(v)}

\* seed is None or not (min_seed_value <= seed <= max_seed_value)
IsInvalid(seed) ==
    IF seed = PyNone THEN TRUE
    ELSE ~(Le(min_seed_value, seed) /\ Le(seed, max_seed_value))

\* variant: the upper end overshot by one
RandIntPastEnd(a, b) == {a, Add(a, 1), b, Add(b, 1)}
\* random.randint(a, b): some integer of [a, b], both ends included (the
\* two ends and the neighbour of the lower one stand for the range)
RandInt(a, b) == {a, Add(a, 1), b}

\* The state of a generator: what it was last seeded with (OS entropy when
\* the process never seeded it) and how many draws were taken since.
Unseeded == [seed |-> [t |-> "entropy"], draws |-> 0]

Seeded(s) == [seed |-> s, draws |-> 0]

RandomSeed(g, s) == Seeded(s)                    \* random.seed(seed)

\* variant: the numeric-library generator left unseeded
NpRandomSeedSkipped(g, s) == g
NpRandomSeed(g, s) == Seeded(s)                  \* np.random.seed(seed)

TorchManualSeed(g, s) == Seeded(s)               \* torch.manual_seed(seed)

Drawn(g) == [g EXCEPT !.draws = @ + 1]

\* f"Got invalid seed: {seed}, use the generated seed: {new_seed}"
WarningMsg(seed, new_seed) ==
    <<"Got invalid seed: ">> \o Str(seed)
        \o <<", use the generated seed: ">> \o Str(new_seed)

\* variant: the argument exported instead of the resolved seed
HashSeedOfArgument(seed, resolved) == Str(seed)
\* os.environ["PYTHONHASHSEED"] = str(seed)
HashSeed(seed, resolved) == Str(resolved)

\* variant: deterministic = FALSE resetting the flags to their defaults
FlagsAfterReset(deterministic, benchmark, det) ==
    IF deterministic THEN <<FALSE, TRUE>> ELSE <<TRUE, FALSE>>
\* if deterministic: benchmark = False; deterministic = True
FlagsAfter(deterministic, benchmark, det) ==
    IF deterministic THEN <<FALSE, TRUE>> ELSE <<benchmark, det>>

\* One call set_random_seed(seed, deterministic); new_seed is what
\* random.randint returns when it is asked.  np.random.seed raises
\* ValueError outside [0, 2^32 - 1], and the statements after it do not run.
SetRandomSeed(seed, deterministic, new_seed) ==
    LET invalid == IsInvalid(seed)
        resolved == IF invalid THEN new_seed ELSE seed
        raised == ~InUInt32(resolved)
        flags == FlagsAfter(deterministic, cudnnBenchmark, cudnnDeterministic)
        py == RandomSeed(IF invalid THEN Drawn(rngPy) ELSE rngPy, resolved)
        np == IF raised THEN rngNp ELSE NpRandomSeed(rngNp, resolved)
        torch == IF raised THEN rngTorch ELSE TorchManualSeed(rngTorch, resolved)
    IN  /\ IF invalid THEN TRUE ELSE new_seed = min_seed_value
        /\ log' = IF invalid THEN <<WarningMsg(seed, new_seed)>> ELSE <<>>
        /\ rngPy' = py
        /\ rngNp' = np
        /\ rngTorch' = torch
        /\ environ' = IF raised THEN environ
                      ELSE [set |-> TRUE, value |-> HashSeed(seed, resolved)]
        /\ cudnnBenchmark' = IF raised THEN cudnnBenchmark ELSE flags[1]
        /\ cudnnDeterministic' = IF raised THEN cudnnDeterministic ELSE flags[2]
        /\ snap' = IF ~invalid /\ ~raised /\ snap.seed = PyNone
                   THEN [seed |-> seed, states |-> <<py, np, torch>>]
                   ELSE snap
        /\ call' = [op |-> "set_random_seed", seed |-> seed,
                    deterministic |-> deterministic,
                    benchmark0 |-> cudnnBenchmark,
                    deterministic0 |-> cudnnDeterministic,
                    repeat |-> snap.seed = seed,
                    drawn0 |-> rngPy.draws + rngNp.draws + rngTorch.draws > 0]
        /\ ret' = [op |-> "set_random_seed", fresh |-> TRUE,
                   err |-> IF raised THEN "ValueError" ELSE "none"]
        /\ UNCHANGED fsVars
        /\ UNCHANGED argVars

\* The caller draws from a generator between two calls; what the last call
\* returned is then no longer the latest event.
DrawPy ==
    /\ rngPy.draws + rngNp.draws + rngTorch.draws < MaxDraws
    /\ rngPy' = Drawn(rngPy)
    /\ ret' = [ret EXCEPT !.fresh = FALSE]
    /\ UNCHANGED <<rngNp, rngTorch, environ, cudnnBenchmark,
                   cudnnDeterministic, log, snap, fs, pc, frame, call>>
    /\ UNCHANGED argVars

DrawNp ==
    /\ rngPy.draws + rngNp.draws + rngTorch.draws < MaxDraws
    /\ rngNp' = Drawn(rngNp)
    /\ ret' = [ret EXCEPT !.fresh = FALSE]
    /\ UNCHANGED <<rngPy, rngTorch, environ, cudnnBenchmark,
                   cudnnDeterministic, log, snap, fs, pc, frame, call>>
    /\ UNCHANGED argVars

DrawTorch ==
    /\ rngPy.draws + rngNp.draws + rngTorch.draws < MaxDraws
    /\ rngTorch' = Drawn(rngTorch)
    /\ ret' = [ret EXCEPT !.fresh = FALSE]
    /\ UNCHANGED <<rngPy, rngNp, environ, cudnnBenchmark,
                   cudnnDeterministic, log, snap, fs, pc, frame, call>>
    /\ UNCHANGED argVars

NoCall == [op |-> "none", fresh |-> FALSE, err |-> "none"]

\* The process before any call: generators seeded from OS entropy, the
\* hash-seed variable unset, the backend flags whatever the caller left.
InitSeed ==
    /\ rngPy = Unseeded
    /\ rngNp = Unseeded
    /\ rngTorch = Unseeded
    /\ environ = [set |-> FALSE, value |-> <<>>]
    /\ cudnnBenchmark \in BOOLEAN
    /\ cudnnDeterministic \in BOOLEAN
    /\ log = <<>>
    /\ snap = [seed |-> PyNone, states |-> <<>>]

InitFsIdle ==
    /\ fs = [p \in 1..NumPaths |-> [kind |-> "absent", target |-> 0]]
    /\ pc = "idle"
    /\ frame = [op |-> "none"]

InitCalls ==
    /\ call = NoCall
    /\ ret = NoCall

\* No machine queried, no dictionary held.
InitArgs ==
    /\ host = [cuda_available |-> FALSE]
    /\ small_dict = <<>>

SeedInit == InitSeed /\ InitFsIdle /\ InitCalls /\ InitArgs

SeedNext ==
    \/ \E seed \in SeedInputs, deterministic \in BOOLEAN,
          new_seed \in RandInt(min_seed_value, max_seed_value) :
           SetRandomSeed(seed, deterministic, new_seed)
    \/ DrawPy
    \/ DrawNp
    \/ DrawTorch

SpecSeed == SeedInit /\ [][SeedNext]_vars

(***************************************************************************)
(* symlink                                                                 *)
(***************************************************************************)
Paths == 1..NumPaths

Absent == [kind |-> "absent", target |-> 0]

RegularFile == [kind |-> "file", target |-> 0]

Directory == [kind |-> "dir", target |-> 0]

Link(t) == [kind |-> "link", target |-> t]

Entries == {Absent, RegularFile, Directory} \cup {Link(t) : t \in Paths}

\* os.path.lexists(p): true of a file, a directory and a symlink, broken or not
Lexists(f, p) == f[p].kind # "absent"

\* variant: removing what a symlink points to
OsRemoveFollowingLink(f, p) ==
    IF f[p].kind = "absent" THEN [fs |-> f, err |-> "FileNotFoundError"]
    ELSE IF f[p].kind = "dir" THEN [fs |-> f, err |-> "IsADirectoryError"]
    ELSE IF f[p].kind = "link"
         THEN [fs |-> [f EXCEPT ![f[p].target] = Absent], err |-> "none"]
    ELSE [fs |-> [f EXCEPT ![p] = Absent], err |-> "none"]
\* os.remove(p): unlinks a file or a symlink (never what the link points
\* to); raises on a directory and on a missing path
OsRemove(f, p) ==
    IF f[p].kind = "absent" THEN [fs |-> f, err |-> "FileNotFoundError"]
    ELSE IF f[p].kind = "dir" THEN [fs |-> f, err |-> "IsADirectoryError"]
    ELSE [fs |-> [f EXCEPT ![p] = Absent], err |-> "none"]

\* os.symlink(src, dst): refuses an existing dst, does not look at src;
\* denied: the platform refuses the creation (permission, privilege)
OsSymlink(f, src, dst, denied) ==
    IF Lexists(f, dst) THEN [fs |-> f, err |-> "FileExistsError"]
    ELSE IF denied THEN [fs |-> f, err |-> "PermissionError"]
    ELSE [fs |-> [f EXCEPT ![dst] = Link(src)], err |-> "none"]

\* variant: the overwrite flag not consulted
ShouldRemoveIgnoringFlag(f, dst, overwrite) == Lexists(f, dst)
\* os.path.lexists(dst) and overwrite
ShouldRemove(f, dst, overwrite) == Lexists(f, dst) /\ overwrite

\* The whole call symlink(src, dst, overwrite) run without interruption.
SymlinkRun(f, src, dst, overwrite, denied) ==
    LET rm == IF ShouldRemove(f, dst, overwrite)
              THEN OsRemove(f, dst)
              ELSE [fs |-> f, err |-> "none"]
    IN  IF rm.err # "none" THEN rm ELSE OsSymlink(rm.fs, src, dst, denied)

\* symlink(src, dst, overwrite) as one event of a single-threaded process on
\* a filesystem that grants the creation.
Symlink(src, dst, overwrite) ==
    LET r == SymlinkRun(fs, src, dst, overwrite, FALSE)
    IN  /\ pc = "idle"
        /\ fs' = r.fs
        /\ call' = [op |-> "symlink", src |-> src, dst |-> dst,
                    overwrite |-> overwrite, fs0 |-> fs]
        /\ ret' = [op |-> "symlink", fresh |-> TRUE, err |-> r.err]
        /\ UNCHANGED <<pc, frame>>
        /\ UNCHANGED seedVars
    /\ UNCHANGED argVars
        /\ UNCHANGED argVars

\* The same call statement by statement, with other processes acting on the
\* filesystem in between.  Entering the call evaluates its first statement,
\* if os.path.lexists(dst) and overwrite:
SymlinkCall(src, dst, overwrite) ==
    /\ pc = "idle"
    /\ pc' = IF ShouldRemove(fs, dst, overwrite) THEN "remove" ELSE "create"
    /\ frame' = [op |-> "symlink", src |-> src, dst |-> dst,
                 overwrite |-> overwrite, entry0 |-> fs[dst],
                 removed |-> FALSE]
    /\ call' = NoCall
    /\ ret' = NoCall
    /\ UNCHANGED fs
    /\ UNCHANGED seedVars
    /\ UNCHANGED argVars

\* os.remove(dst)
SymlinkRemove ==
    LET r == OsRemove(fs, frame.dst)
    IN  /\ pc = "remove"
        /\ fs' = r.fs
        /\ pc' = IF r.err = "none" THEN "create" ELSE "idle"
        /\ frame' = IF r.err = "none" THEN [frame EXCEPT !.removed = TRUE]
                     ELSE [op |-> "none"]
        /\ call' = IF r.err = "none" THEN call ELSE frame
        /\ ret' = IF r.err = "none" THEN ret
                  ELSE [op |-> "symlink", fresh |-> TRUE, err |-> r.err]
        /\ UNCHANGED seedVars
    /\ UNCHANGED argVars
        /\ UNCHANGED argVars

\* os.symlink(src, dst, **kwargs)
SymlinkCreate(denied) ==
    LET r == OsSymlink(fs, frame.src, frame.dst, denied)
    IN  /\ pc = "create"
        /\ fs' = r.fs
        /\ pc' = "idle"
        /\ call' = frame
        /\ ret' = [op |-> "symlink", fresh |-> TRUE, err |-> r.err]
        /\ frame' = [op |-> "none"]
        /\ UNCHANGED seedVars
    /\ UNCHANGED argVars
        /\ UNCHANGED argVars

\* Another process creates, replaces or removes an entry while the call is
\* in progress.
OtherActor(p, e) ==
    /\ pc # "idle"
    /\ fs[p] # e
    /\ fs' = [fs EXCEPT ![p] = e]
    /\ UNCHANGED <<pc, frame, call, ret>>
    /\ UNCHANGED seedVars
    /\ UNCHANGED argVars

\* Any filesystem, no call in progress.
InitFs ==
    /\ fs \in [Paths -> Entries]
    /\ pc = "idle"
    /\ frame = [op |-> "none"]

SymlinkInit ==
    /\ InitSeed /\ ~cudnnBenchmark /\ ~cudnnDeterministic
    /\ InitFs /\ InitCalls /\ InitArgs

SymlinkNext ==
    \E src \in Paths, dst \in Paths, overwrite \in BOOLEAN :
        Symlink(src, dst, overwrite)

SpecSymlink == SymlinkInit /\ [][SymlinkNext]_vars

SymlinkStepsNext ==
    \/ \E src \in Paths, dst \in Paths, overwrite \in BOOLEAN :
           SymlinkCall(src, dst, overwrite)
    \/ SymlinkRemove
    \/ \E denied \in BOOLEAN : SymlinkCreate(denied)
    \/ \E p \in Paths, e \in Entries : OtherActor(p, e)

SpecSymlinkSteps == SymlinkInit /\ [][SymlinkStepsNext]_vars

(***************************************************************************)
(* collect_env                                                             *)
(***************************************************************************)
DeviceNames == {"A100", "V100"}

ImportOutcomes == {"ok", "ModuleNotFoundError", "ImportError"}

\* sys.version spans two lines
SysVersion == <<"3.8.10 (default, Nov 22 2023, 10:22:35) ", "\n", "[GCC 9.4.0]">>

RECURSIVE Replace(_, _, _)
\* s.replace(old, new) for a one-segment old
Replace(str, old, new) ==
    IF str = <<>> THEN <<>>
    ELSE (IF Head(str) = old THEN new ELSE <<Head(str)>>)
             \o Replace(Tail(str), old, new)

RECURSIVE Join(_, _)
\* sep.join(parts)
Join(sep, parts) ==
    IF parts = <<>> THEN <<>>
    ELSE IF Len(parts) = 1 THEN parts[1]
    ELSE parts[1] \o sep \o Join(sep, Tail(parts))

\* variant: every device under a key of its own
DictAppendNewKeyEachTime(devices, name, id) == Append(devices, <<name, <<id>>>>)
\* devices[name].append(str(k)) on a defaultdict(list), which keeps its keys
\* in the order they were first used
DictAppend(devices, name, id) ==
    IF \E i \in 1..Len(devices) : devices[i][1] = name
    THEN LET i == CHOOSE j \in 1..Len(devices) : devices[j][1] = name
         IN  [devices EXCEPT ![i] = <<name, Append(devices[i][2], id)>>]
    ELSE Append(devices, <<name, <<id>>>>)

RECURSIVE DevicesByName(_, _)
\* for k in range(device_count): devices[get_device_name(k)].append(str(k))
\* run for the first n devices
DevicesByName(names, n) ==
    IF n = 0 THEN <<>>
    ELSE DictAppend(DevicesByName(names, n - 1), names[n], StrNat(n - 1))

\* for name, device_ids in devices.items():
\*     env_info.append(("GPU " + ",".join(device_ids), name))
GpuEntries(names) ==
    LET devices == DevicesByName(names, Len(names))
    IN  [i \in 1..Len(devices) |->
            <<(<<"GPU ">> \o Join(<<",">>, devices[i][2])), devices[i][1]>>]

\* variant: a missing optional library raising
TryImportStrict(info, outcome, label, version) ==
    IF info.err # "none" THEN info
    ELSE IF outcome = "ok"
         THEN [info EXCEPT !.entries = Append(@, <<(<<label>>), version>>)]
    ELSE [info EXCEPT !.err = outcome]
\* try: import lib; env_info.append((label, lib.__version__))
\* except ModuleNotFoundError: pass
TryImport(info, outcome, label, version) ==
    IF info.err # "none" THEN info
    ELSE IF outcome = "ok"
         THEN [info EXCEPT !.entries = Append(@, <<(<<label>>), version>>)]
    ELSE IF outcome = "ModuleNotFoundError" THEN info
    ELSE [info EXCEPT !.err = outcome]

\* env_info as collect_env builds it on machine h
EnvInfo(h) ==
    LET head == << <<(<<"sys.platform">>), h.platform>>,
                   <<(<<"Python">>), Replace(h.version, "\n", <<>>)>>,
                   <<(<<"Numpy">>), h.numpy>>,
                   <<(<<"CUDA available">>), h.cuda_available>> >>
        gpu == IF h.cuda_available THEN GpuEntries(h.device_names) ELSE <<>>
        torch == << <<(<<"PyTorch">>), h.torch>> >>
        base == [entries |-> head \o gpu \o torch, err |-> "none"]
        tv == TryImport(base, h.torchvision, "TorchVision", h.torchvision_version)
    IN  TryImport(tv, h.cv2, "OpenCV", h.cv2_version)

\* One call collect_env(): tabulate(env_info) + "\n" + torch_config
CollectEnv ==
    LET info == EnvInfo(host)
    IN  /\ call' = [op |-> "collect_env"]
        /\ ret' = IF info.err # "none"
                  THEN [op |-> "collect_env", fresh |-> TRUE, err |-> info.err]
                  ELSE [op |-> "collect_env", fresh |-> TRUE, err |-> "none",
                        table |-> info.entries, tail |-> <<"\n", host.config>>]
        /\ UNCHANGED seedVars
        /\ UNCHANGED fsVars
        /\ UNCHANGED argVars

RECURSIVE SeqsUpTo(_, _)
\* the sequences over S of length at most n
SeqsUpTo(S, n) ==
    IF n = 0 THEN {<<>>}
    ELSE LET shorter == SeqsUpTo(S, n - 1)
         IN  shorter \cup {Append(q, x) : q \in shorter, x \in S}

\* A machine: its accelerator, its devices in index order, what importing
\* each optional library does.
InitHost ==
    \E avail \in BOOLEAN, names \in SeqsUpTo(DeviceNames, MaxDevices),
       tv \in ImportOutcomes, cv \in ImportOutcomes :
        host = [platform |-> "linux", version |-> SysVersion,
                numpy |-> "1.24.4", torch |-> "2.0.1+cu117",
                cuda_available |-> avail, device_names |-> names,
                torchvision |-> tv, torchvision_version |-> "0.15.2",
                cv2 |-> cv, cv2_version |-> "4.8.0",
                config |-> "PyTorch built with: GCC 9.3"]

EnvInit ==
    /\ InitSeed /\ ~cudnnBenchmark /\ ~cudnnDeterministic
    /\ InitFsIdle /\ InitCalls
    /\ InitHost
    /\ small_dict = <<>>

EnvNext == CollectEnv

SpecEnv == EnvInit /\ [][EnvNext]_vars

(***************************************************************************)
(* create_small_table                                                      *)
(***************************************************************************)
TableKeys == {"AP", "AP50", "AP75", "loss"}

\* a float is kept in thousandths, so that ".3f" is exact
PyFloat(milli) == [t |-> "float", milli |-> milli]

PyStr(v) == [t |-> "str", v |-> v]

TableValues == {PyFloat(500), PyFloat(12037), PyInt(0, 7), PyStr("cat")}

\* variant: the values taken in reverse order
ZipStarMisaligned(pairs) ==
    IF pairs = <<>> THEN <<>>
    ELSE <<[i \in 1..Len(pairs) |-> pairs[i][1]],
           [i \in 1..Len(pairs) |-> pairs[Len(pairs) + 1 - i][2]]>>
\* zip(*pairs): one tuple per position of the pairs, none when there is no
\* pair
ZipStar(pairs) ==
    IF pairs = <<>> THEN <<>>
    ELSE <<[i \in 1..Len(pairs) |-> pairs[i][1]],
           [i \in 1..Len(pairs) |-> pairs[i][2]]>>

\* format(x, ".3f") of a nonnegative float
Format3f(x) ==
    LET frac == x.milli % 1000
    IN  StrNat(x.milli \div 1000) \o <<".">>
            \o <<DigitChar(frac \div 100), DigitChar((frac \div 10) % 10),
                 DigitChar(frac % 10)>>

\* a cell as tabulate renders it with floatfmt=".3f"
Cell(v) ==
    IF v.t = "float" THEN Format3f(v)
    ELSE IF v.t = "int" THEN Str(v)
    ELSE <<v.v>>

\* tabulate([values], headers=keys, tablefmt="pipe", floatfmt=".3f",
\*          stralign="center", numalign="center")
Tabulate(rows, headers) ==
    [headers |-> headers,
     rows |-> [r \in 1..Len(rows) |->
                  [i \in 1..Len(rows[r]) |-> Cell(rows[r][i])]],
     tablefmt |-> "pipe", stralign |-> "center", numalign |-> "center"]

\* One call create_small_table(small_dict); `keys, values = ...` needs
\* exactly two tuples to unpack.
CreateSmallTable ==
    LET zipped == ZipStar(small_dict)
    IN  /\ call' = [op |-> "create_small_table"]
        /\ ret' = IF Len(zipped) # 2
                  THEN [op |-> "create_small_table", fresh |-> TRUE,
                        err |-> "ValueError"]
                  ELSE [op |-> "create_small_table", fresh |-> TRUE,
                        err |-> "none",
                        table |-> Tabulate(<<zipped[2]>>, zipped[1])]
        /\ UNCHANGED seedVars
        /\ UNCHANGED fsVars
        /\ UNCHANGED argVars

\* A dictionary: pairs with distinct keys, in insertion order.
InitDict ==
    /\ small_dict \in SeqsUpTo(TableKeys \X TableValues, MaxEntries)
    /\ \A i \in 1..Len(small_dict), j \in 1..Len(small_dict) :
           small_dict[i][1] = small_dict[j][1] => i = j

TableInit ==
    /\ InitSeed /\ ~cudnnBenchmark /\ ~cudnnDeterministic
    /\ InitFsIdle /\ InitCalls
    /\ host = [cuda_available |-> FALSE]
    /\ InitDict

TableNext == CreateSmallTable

SpecTable == TableInit /\ [][TableNext]_vars

(***************************************************************************)
(* Reading decimal text back, for the properties below.                    *)
(***************************************************************************)
Digits == {DigitChar(d) : d \in 0..9}

DigitValue(c) == CHOOSE d \in 0..9 : DigitChar(d) = c

IsDigits(text) == Len(text) > 0 /\ \A i \in 1..Len(text) : text[i] \in Digits

RECURSIVE ParseDigits(_)
ParseDigits(text) ==
    IF text = <<>> THEN PyInt(0, 0)
    ELSE LET acc == ParseDigits(SubSeq(text, 1, Len(text) - 1))
             s == acc.lo * 10 + DigitValue(text[Len(text)])
         IN  PyInt(acc.hi * 10 + (s \div Base), s % Base)

\* text is the canonical decimal form of the integer v (or "None" of None)
Reads(text, v) ==
    IF v = PyNone THEN text = <<"None">>
    ELSE IF text # <<>> /\ text[1] = "-"
         THEN /\ IsDigits(Tail(text))
              /\ text[2] # "0"
              /\ Neg(ParseDigits(Tail(text))) = v
    ELSE /\ IsDigits(text)
         /\ Len(text) = 1 \/ text[1] # "0"
         /\ ParseDigits(text) = v

AfterSeedCall == ret.op = "set_random_seed" /\ ret.fresh

(***************************************************************************)
(* C3: after set_random_seed(s) with 0 <= s <= 2^32 - 1 the call has not   *)
(* raised, no warning replaced s, the generators are seeded with s, and    *)
(* when s is the seed an earlier call set, the three generators are in     *)
(* exactly the states that call left, whatever came in between.            *)
(***************************************************************************)
C3_SameSeedSameStates ==
    (AfterSeedCall /\ InUInt32(call.seed)) =>
        /\ ret.err = "none"
        /\ log = <<>>
        /\ snap.seed = call.seed => snap.states = <<rngPy, rngNp, rngTorch>>
        /\ rngPy.seed = call.seed

C3_Witness ==
    /\ AfterSeedCall
    /\ InUInt32(call.seed)
    /\ call.repeat
    /\ call.drawn0
    /\ snap.states = <<rngPy, rngNp, rngTorch>>

(***************************************************************************)
(* C4: after set_random_seed with no seed or an integer outside            *)
(* [0, 2^32 - 1] the call has not raised, exactly one warning was emitted, *)
(* it names the rejected value and the replacement, the replacement lies   *)
(* in [0, 2^32 - 1] and all three generators are seeded with it.           *)
(***************************************************************************)
WarningNames(msg, rejected, replacement) ==
    \E i \in 2..Len(msg) :
        /\ msg[1] = "Got invalid seed: "
        /\ msg[i] = ", use the generated seed: "
        /\ Reads(SubSeq(msg, 2, i - 1), rejected)
        /\ Reads(SubSeq(msg, i + 1, Len(msg)), replacement)

C4_FallbackSeedsAll ==
    (AfterSeedCall /\ ~InUInt32(call.seed)) =>
        /\ ret.err = "none"
        /\ Len(log) = 1
        /\ InUInt32(rngPy.seed)
        /\ WarningNames(log[1], call.seed, rngPy.seed)
        /\ rngPy = Seeded(rngPy.seed)
        /\ rngNp = Seeded(rngPy.seed)
        /\ rngTorch = Seeded(rngPy.seed)

C4_Witness ==
    /\ AfterSeedCall
    /\ call.seed = Add(max_seed_value, 1)
    /\ ret.err = "none"
    /\ Len(log) = 1
    /\ rngTorch = Seeded(max_seed_value)

(***************************************************************************)
(* C5: once a call of set_random_seed has returned, the three generators   *)
(* were all last seeded with one value, that value lies in [0, 2^32 - 1],  *)
(* and PYTHONHASHSEED is the decimal string of that value.                 *)
(***************************************************************************)
C5_OneSeedEverywhere ==
    ret.op = "set_random_seed" =>
        /\ rngPy.seed = rngNp.seed
        /\ rngNp.seed = rngTorch.seed
        /\ InUInt32(rngPy.seed)
        /\ environ.set
        /\ Reads(environ.value, rngPy.seed)

C5_Witness ==
    /\ ret.op = "set_random_seed"
    /\ ~ret.fresh
    /\ call.seed = PyNone
    /\ call.repeat = FALSE
    /\ rngNp.seed = max_seed_value
    /\ environ.value = <<"4", "2", "9", "4", "9", "6", "7", "2", "9", "5">>

(***************************************************************************)
(* C6: after a call with deterministic = TRUE cudnn.benchmark is FALSE and *)
(* cudnn.deterministic is TRUE; after a call with deterministic = FALSE    *)
(* both flags have the values they had before the call.                    *)
(***************************************************************************)
C6_DeterminismFlags ==
    AfterSeedCall =>
        IF call.deterministic
        THEN cudnnBenchmark = FALSE /\ cudnnDeterministic = TRUE
        ELSE /\ cudnnBenchmark = call.benchmark0
             /\ cudnnDeterministic = call.deterministic0

\* a deterministic = FALSE call made with the flags as a deterministic = TRUE
\* call leaves them
C6_Witness ==
    /\ AfterSeedCall
    /\ ~call.deterministic
    /\ call.benchmark0 = FALSE
    /\ call.deterministic0 = TRUE
    /\ cudnnBenchmark = FALSE
    /\ cudnnDeterministic = TRUE

(***************************************************************************)
(* C1: symlink with overwrite = TRUE on an existing destination of any     *)
(* kind (file, directory, symlink, broken symlink) does not fail and       *)
(* leaves the destination a symlink to the given source.                   *)
(***************************************************************************)
C1_OverwriteReplacesAnyEntry ==
    (ret.op = "symlink" /\ call.overwrite /\ Lexists(call.fs0, call.dst)) =>
        /\ ret.err = "none"
        /\ fs[call.dst] = Link(call.src)

(***************************************************************************)
(* C2: symlink with overwrite = FALSE on an existing destination fails     *)
(* with the "already exists" error and leaves the filesystem, so the       *)
(* destination entry, exactly as it was.                                   *)
(***************************************************************************)
C2_NoOverwriteFailsAndKeeps ==
    (ret.op = "symlink" /\ ~call.overwrite /\ Lexists(call.fs0, call.dst)) =>
        /\ ret.err = "FileExistsError"
        /\ fs = call.fs0

\* the destination was a broken symlink
C2_Witness ==
    /\ ret.op = "symlink"
    /\ ~call.overwrite
    /\ call.fs0[call.dst].kind = "link"
    /\ call.fs0[call.fs0[call.dst].target].kind = "absent"
    /\ ret.err = "FileExistsError"
    /\ fs[call.dst] = call.fs0[call.dst]

(***************************************************************************)
(* C10: every step of a symlink call leaves all paths but the destination  *)
(* alone; the removal is a step of its own that leaves the destination     *)
(* absent before the creation is attempted; the creation is attempted      *)
(* with overwrite on a destination that existed only after that removal;   *)
(* and a step that fails raises its error and changes nothing, so a        *)
(* failed creation does not bring the removed destination back.            *)
(***************************************************************************)
C10_StepOk ==
    pc' # pc =>
        /\ \A p \in Paths :
               fs'[p] # fs[p] => (pc # "idle" /\ p = frame.dst)
        /\ (pc = "remove" /\ pc' = "create") =>
               /\ Lexists(fs, frame.dst)
               /\ fs'[frame.dst] = Absent
               /\ frame'.removed
        /\ (pc' = "create" /\ frame'.overwrite /\ frame'.entry0 # Absent) =>
               pc = "remove"
        /\ (pc = "remove" /\ pc' = "idle") =>
               /\ ret'.err \in {"IsADirectoryError", "FileNotFoundError"}
               /\ fs' = fs
        /\ pc = "create" =>
               IF ret'.err = "none"
               THEN fs' = [fs EXCEPT ![frame.dst] = Link(frame.src)]
               ELSE /\ ret'.err \in {"FileExistsError", "PermissionError"}
                    /\ fs' = fs

\* C10: every step of every behaviour is as described above.
C10_RemovalThenCreation == [][C10_StepOk]_vars

\* the destination was removed, another process created it again, and the
\* creation failed: the original entry is gone
C10_Witness ==
    /\ pc = "idle"
    /\ ret.op = "symlink"
    /\ ret.err = "FileExistsError"
    /\ call.overwrite
    /\ call.removed
    /\ fs[call.dst] # call.entry0

(***************************************************************************)
(* C7: with the accelerator unavailable the report has no GPU entry; with  *)
(* it available there is one GPU entry per distinct device name, every     *)
(* device index 0..n-1 is listed in exactly one entry, the one of its      *)
(* device's name, and the indices of an entry are comma-joined ascending.  *)
(***************************************************************************)
RECURSIVE SplitOn(_, _)
\* the pieces of str between the separators sep
SplitOn(str, sep) ==
    IF \A i \in 1..Len(str) : str[i] # sep THEN <<str>>
    ELSE LET i == CHOOSE j \in 1..Len(str) :
                      str[j] = sep /\ \A k \in 1..(j - 1) : str[k] # sep
         IN  <<SubSeq(str, 1, i - 1)>>
                 \o SplitOn(SubSeq(str, i + 1, Len(str)), sep)

IsGpuLabel(label) == label[1] = "GPU "

\* the device indices a GPU label lists, in the order it lists them
GpuIndices(label) ==
    LET parts == SplitOn(Tail(label), ",")
    IN  [i \in 1..Len(parts) |->
            IF IsDigits(parts[i]) /\ Reads(parts[i], ParseDigits(parts[i]))
            THEN ParseDigits(parts[i]).lo ELSE -1]

C7_GpuGrouping ==
    (ret.op = "collect_env" /\ ret.err = "none") =>
        LET gpu == {i \in 1..Len(ret.table) : IsGpuLabel(ret.table[i][1])}
            n == Len(host.device_names)
            distinct == {host.device_names[k] : k \in 1..n}
        IN  IF ~host.cuda_available THEN gpu = {}
            ELSE /\ Cardinality(gpu) = Cardinality(distinct)
                 /\ \A nm \in distinct :
                        Cardinality({i \in gpu : ret.table[i][2] = nm}) = 1
                 /\ \A k \in 0..(n - 1) :
                        \E i \in gpu :
                            /\ ret.table[i][2] = host.device_names[k + 1]
                            /\ \E j \in 1..Len(GpuIndices(ret.table[i][1])) :
                                   GpuIndices(ret.table[i][1])[j] = k
                 /\ \A i \in gpu :
                        LET ids == GpuIndices(ret.table[i][1])
                        IN  /\ \A j \in 1..Len(ids) : ids[j] \in 0..(n - 1)
                            /\ \A j \in 1..(Len(ids) - 1) : ids[j] < ids[j + 1]
                            /\ \A j \in 1..Len(ids) :
                                   host.device_names[ids[j] + 1] = ret.table[i][2]

\* eleven devices of two interleaved names: indices 0 and 10 share an entry
C7_Witness ==
    /\ ret.op = "collect_env"
    /\ ret.err = "none"
    /\ host.cuda_available
    /\ Len(host.device_names) = 11
    /\ \E i \in 1..Len(ret.table) :
           /\ ret.table[i][1] = <<"GPU ", "0", ",", "2", ",", "1", "0">>
           /\ ret.table[i][2] = "A100"

(***************************************************************************)
(* C8: the report's entries are, in this order, sys.platform, Python,      *)
(* Numpy, CUDA available, the GPU entries (only with the accelerator       *)
(* available), PyTorch, then TorchVision exactly when torchvision imports, *)
(* then OpenCV exactly when cv2 imports; and whichever of the two          *)
(* libraries are present or missing, the call returns a report.            *)
(***************************************************************************)
Missing == "ModuleNotFoundError"

C8_EntryOrder ==
    ret.op = "collect_env" =>
        /\ (host.torchvision \in {"ok", Missing} /\ host.cv2 \in {"ok", Missing})
               => ret.err = "none"
        /\ ret.err = "none" =>
               LET labels == [i \in 1..Len(ret.table) |-> ret.table[i][1][1]]
                   rest == SelectSeq(labels, LAMBDA l : l # "GPU ")
                   g == Len(labels) - Len(rest)
               IN  /\ rest = <<"sys.platform", "Python", "Numpy",
                               "CUDA available", "PyTorch">>
                              \o (IF host.torchvision = "ok"
                                  THEN <<"TorchVision">> ELSE <<>>)
                              \o (IF host.cv2 = "ok" THEN <<"OpenCV">> ELSE <<>>)
                   /\ \A i \in 1..Len(labels) :
                          labels[i] = "GPU " <=> i \in 5..(4 + g)
                   /\ g > 0 => host.cuda_available
                   /\ ret.table[4][2] = host.cuda_available
                   /\ ret.table[5 + g][2] = host.torch
                   /\ host.torchvision = "ok" =>
                          ret.table[6 + g][2] = host.torchvision_version
                   /\ host.cv2 = "ok" =>
                          ret.table[Len(labels)][2] = host.cv2_version

\* torchvision missing, cv2 present, two GPU entries
C8_Witness ==
    /\ ret.op = "collect_env"
    /\ ret.err = "none"
    /\ host.torchvision = Missing
    /\ host.cv2 = "ok"
    /\ Len(ret.table) = 8
    /\ ret.table[8][1] = <<"OpenCV">>
    /\ ret.table[5][1][1] = "GPU "
    /\ ret.table[6][1][1] = "GPU "

(***************************************************************************)
(* C9: for a dictionary with at least one entry create_small_table returns *)
(* a table whose header row is the keys in iteration order and whose one   *)
(* data row shows, in the same columns, the corresponding values; for the  *)
(* empty dictionary it raises the unpacking error and returns no table.    *)
(***************************************************************************)
\* the cell shows the value: a float to three decimals, an integer in
\* decimal, a string as it is
CellShows(cell, v) ==
    IF v.t = "str" THEN cell = <<v.v>>
    ELSE IF v.t = "int" THEN Reads(cell, v)
    ELSE /\ Len(cell) >= 5
         /\ cell[Len(cell) - 3] = "."
         /\ IsDigits(SubSeq(cell, 1, Len(cell) - 4))
         /\ IsDigits(SubSeq(cell, Len(cell) - 2, Len(cell)))
         /\ ParseDigits(SubSeq(cell, 1, Len(cell) - 4)).lo * 1000
                + ParseDigits(SubSeq(cell, Len(cell) - 2, Len(cell))).lo
            = v.milli

C9_HeaderAndRow ==
    ret.op = "create_small_table" =>
        IF small_dict = <<>>
        THEN ret.err = "ValueError" /\ "table" \notin DOMAIN ret
        ELSE /\ ret.err = "none"
             /\ ret.table.headers = [i \in 1..Len(small_dict) |-> small_dict[i][1]]
             /\ Len(ret.table.rows) = 1
             /\ Len(ret.table.rows[1]) = Len(small_dict)
             /\ \A i \in 1..Len(small_dict) :
                    CellShows(ret.table.rows[1][i], small_dict[i][2])

\* {"loss": 12.037, "AP": 0.5, "AP50": "cat"}
C9_Witness ==
    /\ ret.op = "create_small_table"
    /\ ret.err = "none"
    /\ small_dict = <<<<"loss", PyFloat(12037)>>, <<"AP", PyFloat(500)>>,
                      <<"AP50", PyStr("cat")>>>>
    /\ ret.table.headers = <<"loss", "AP", "AP50">>
    /\ ret.table.rows = <<<<(<<"1", "2", ".", "0", "3", "7">>),
                            (<<"0", ".", "5", "0", "0">>), (<<"cat">>)>>>>

====
